---- MODULE Spec2Model ----
(***************************************************************************)
(* State-machine model of the LINE to-do bot: the webhook dispatcher and   *)
(* command handlers of src/app.py running against the ORM model and CRUD   *)
(* helpers of src/models.py.                                               *)
(*                                                                         *)
(* app.py addresses Task through the names member, member_id,              *)
(* is_recurring, recurrence_pattern, recurrence_count and parent_task_id.  *)
(* models.py (v2.3.0) maps none of them: Task has the columns of           *)
(* TaskAttributes and the many-to-many relationship members, and           *)
(* create_task takes a list `members`.  Every place where app.py uses one  *)
(* of the unmapped names is modelled by what Python does there: an         *)
(* AttributeError on attribute access, a TypeError on a keyword argument,  *)
(* caught by whichever except clause encloses the place.                   *)
(***************************************************************************)
EXTENDS Integers, Sequences, FiniteSets, TLC

(* ------------------------------ bounds -------------------------------- *)
MaxTasks == 1
MaxClock == 1
\* The number of tasks in the specification of the task list.
ListingTasks == 2
\* The number of tasks in the specification of the filtered list.
FilterTasks == 2

(* ------------------------- input alphabets ---------------------------- *)
Groups == {"G1", "G2"}
\* The groups in which the member-creating commands are sent.
MemberGroups == {"G1"}
Private == "private"
Users == {"U1", "U2"}
\* The senders that use the guided flow.
GuidedSenders == {<<"U1", "G1">>}
Names == {"Alice"}
Contents == {"buy lunch"}
\* Priority tags, written here in ASCII: "!low", "!normal", "!high"; "" is no tag.
PriorityTags == {"", "!high"}

\* Optional values (Python None / SQL NULL): the empty set, or a singleton.
None == {}
Some(x) == {x}
The(opt) == CHOOSE x \in opt : TRUE

\* Date tokens as the regex captures them, \d{4}/\d{1,2}/\d{1,2}: three numbers.
DateTokens == {[y |-> 2025, m |-> 1, d |-> 10], [y |-> 2025, m |-> 13, d |-> 45]}
DateStrs == {None} \cup {Some(tok) : tok \in DateTokens}

IsLeap(y) == (y % 4 = 0 /\ y % 100 # 0) \/ y % 400 = 0
DaysInMonth(y, m) ==
    IF m = 2 THEN (IF IsLeap(y) THEN 29 ELSE 28)
    ELSE IF m \in {4, 6, 9, 11} THEN 30 ELSE 31

\* A calendar day as a number that orders the way the calendar does.
DayKey(y, m, d) == (y * 12 + (m - 1)) * 31 + (d - 1)

\* parse_date: None for no token and for a token strptime rejects.
parse_date(date_str) ==
    IF date_str = None THEN None
    ELSE LET tok == The(date_str) IN
         IF tok.y >= 1 /\ tok.m >= 1 /\ tok.m <= 12
            /\ tok.d >= 1 /\ tok.d <= DaysInMonth(tok.y, tok.m)
         THEN Some(DayKey(tok.y, tok.m, tok.d))
         ELSE None

\* The clock (datetime.now, func.now()) in days, starting the day before the
\* model's valid due date.
FirstDay == DayKey(2025, 1, 9)
Days == FirstDay .. (FirstDay + MaxClock)

(* --------------------------- models.py -------------------------------- *)
\* The attributes class Task maps: its columns and the relationship members.
TaskAttributes ==
    {"id", "content", "status", "due_date", "created_at", "completed_at",
     "priority", "members"}

TaskHasAttr(a) == a \in TaskAttributes

\* Variant for C3: a constructor that takes any keyword.
TaskConstructorAccepts_any(keys) == TRUE

\* The declarative constructor Task(**kwargs) raises TypeError for a keyword
\* that is no attribute of the class.
TaskConstructorAccepts(keys) == keys \subseteq TaskAttributes

\* The keyword parameters of create_task, and the ones without a default.
CreateTaskParams == {"members", "content", "due_date", "priority", "status"}
CreateTaskRequired == {"members", "content"}

CreateTaskAccepts(keys) ==
    keys \subseteq CreateTaskParams /\ CreateTaskRequired \subseteq keys

\* The priority a tag selects (handle_add_task, handle_recurring_task).
PriorityOfTag(tag) ==
    IF tag = "!low" THEN "low" ELSE IF tag = "!high" THEN "high" ELSE "normal"

VARIABLES
    members,       \* table members: rows [id, name, group_id]
    tasks,         \* table tasks with task_assignments folded into .members
    nextMemberId,  \* members.id sequence
    nextTaskId,    \* tasks.id sequence
    sessions,      \* UserSessions._sessions: session_key -> session
    now,           \* the current day
    last,          \* the message handled last and the reply sent for it
    inflight       \* per worker thread: the handler it is in the middle of

vars == <<members, tasks, nextMemberId, nextTaskId, sessions, now, last, inflight>>
store == <<members, tasks, nextMemberId, nextTaskId>>

\* Variant for C32: the key names the user only.
session_key_userOnly(user_id, group_id) == user_id \o "_"

\* session_key = f"{user_id}_{group_id}"
session_key(user_id, group_id) == user_id \o "_" \o group_id

SessionKeys == {session_key(u, g) : u \in Users, g \in Groups}
NoSession == [state |-> "", step |-> "", content |-> "", member_name |-> "",
              priority |-> ""]

\* A reply: what it says (kind), the task id and the task content it names, and
\* for a batch result the numbers of lines stored and failed.
\* A task list names its tasks in the field listed, in the order shown.
\* The result of a random pick names its options, their number, and in
\* content the option drawn.
NoReply ==
    [kind |-> "none", id |-> 0, content |-> "", stored |-> 0, failed |-> 0,
     listed |-> <<>>, options |-> <<>>, count |-> 0]
Reply(kind, id, content) ==
    [kind |-> kind, id |-> id, content |-> content, stored |-> 0, failed |-> 0,
     listed |-> <<>>, options |-> <<>>, count |-> 0]
BatchReply(stored, failed) ==
    [kind |-> "batch_result", id |-> 0, content |-> "", stored |-> stored,
     failed |-> failed, listed |-> <<>>, options |-> <<>>, count |-> 0]
\* delivery tells what became of the reply: "sent"; "fallback" when
\* reply_message raised and the sender got the dispatcher's internal-error
\* text in its place; "lost" when that raised too.
Handled(op, group, id, reply) ==
    [op |-> op, group |-> group, id |-> id, reply |-> reply, delivery |-> "sent"]

(* ----------------------- the command patterns ------------------------- *)
\* The text of an Add command after the keyword: the mention block, the priority
\* tag, the body, and a trailing token written as a date, with its separator.
Trailers ==
    {None,
     Some([y |-> 2025, m |-> 1, d |-> 10, sep |-> "/"]),
     Some([y |-> 2025, m |-> 13, d |-> 45, sep |-> "/"]),
     Some([y |-> 2025, m |-> 1, d |-> 10, sep |-> "-"])}

Mentions == {<<>>, <<"Alice">>, <<"Alice", "Bob">>}

AddText(mentions, tag, body, trailer) ==
    [mentions |-> mentions, tag |-> tag, body |-> body, trailer |-> trailer]

AddTexts ==
    {AddText(ms, tag, c, tr) : ms \in Mentions, tag \in PriorityTags, c \in Contents,
                               tr \in Trailers}

\* The Add texts sent to the bot in a one-to-one conversation.
PrivateTexts == {text \in AddTexts : text.tag = "" /\ text.trailer = None}

\* The trailing token as the sender typed it.
TrailerText(tok) ==
    ToString(tok.y) \o tok.sep \o ToString(tok.m) \o tok.sep \o ToString(tok.d)

\* The mention block from its second mention on, as text in front of the body.
RECURSIVE MentionText(_)
MentionText(names) ==
    IF names = <<>> THEN "" ELSE "@" \o Head(names) \o " " \o MentionText(Tail(names))

\* re.match(ADD_TASK_PATTERN, text): None for no match, else the four groups.
\* @(\S+) takes one mention; (.+?) takes what follows up to a final token of
\* the shape \d{4}/\d{1,2}/\d{1,2}, which alone is group 4.
add_match(text) ==
    IF text.mentions = <<>> THEN None
    ELSE LET dated == text.trailer # None /\ The(text.trailer).sep = "/"
             tok == The(text.trailer)
         IN  Some([member_name |-> Head(text.mentions),
                   priority_tag |-> text.tag,
                   task_content |->
                       MentionText(Tail(text.mentions)) \o text.body \o
                       (IF text.trailer # None /\ ~dated
                        THEN " " \o TrailerText(tok) ELSE ""),
                   due_date_str |->
                       IF dated THEN Some([y |-> tok.y, m |-> tok.m, d |-> tok.d])
                       ELSE None])

\* A row of table tasks as the constructor and the column defaults leave it:
\* status 'pending', priority 'normal', no due date, no members.  created_at
\* is written once by the server default and read only as a sort key; the
\* row does not carry it (ids grow in the order of creation, CreatedBefore).
TaskRow(id, kwargs) ==
    [id |-> id,
     content |-> kwargs.content,
     status |-> IF "status" \in DOMAIN kwargs THEN kwargs.status ELSE "pending",
     due_date |-> IF "due_date" \in DOMAIN kwargs THEN kwargs.due_date ELSE None,
     completed_at |-> None,
     priority |-> IF "priority" \in DOMAIN kwargs THEN kwargs.priority ELSE "normal",
     members |-> IF "members" \in DOMAIN kwargs THEN kwargs.members ELSE {}]

\* Variant for C18: a lookup that finds no row.
get_member_by_name_and_group_blind(name, group_id) == {}

get_member_by_name_and_group(name, group_id) ==
    {m \in members : m.name = name /\ m.group_id = group_id}

get_task_by_id(task_id) == {t \in tasks : t.id = task_id}

MemberRow(id, name, group_id) == [id |-> id, name |-> name, group_id |-> group_id]

\* The threads that serve webhook requests, each with a database session of
\* its own (get_db).
Workers == {"W1", "W2"}

\* A worker between two requests.
Idle == [pc |-> "idle", group_id |-> "", member_name |-> "", task_id |-> 0, day |-> 0]

Init ==
    /\ members = {}
    /\ tasks = {}
    /\ nextMemberId = 1
    /\ nextTaskId = 1
    /\ sessions = [k \in SessionKeys |-> NoSession]
    /\ now = FirstDay
    /\ last = Handled("start", "", 0, NoReply)
    /\ inflight = [w \in Workers |-> Idle]

\* A conversation is active for the sender when a session with a state is stored
\* under the key of (user_id, group_id).
ActiveConversation(user, group) == sessions[session_key(user, group)].state # ""

\* Time passes.
Tick ==
    /\ now < FirstDay + MaxClock
    /\ now' = now + 1
    /\ last' = Handled("tick", "", 0, NoReply)
    /\ UNCHANGED <<store, sessions, inflight>>

\* The outcomes of a step that can fail (create_member's and the handlers'
\* db.commit()): TRUE for success; failure only where the step is attempted.
Outcomes(attempted) == IF attempted THEN BOOLEAN ELSE {TRUE}

\* The handler's reply and the record of the message it answered.  A handler
\* taken as one step runs between the steps of the workers.
Respond(op, group, id, reply) ==
    last' = Handled(op, group, id, reply) /\ UNCHANGED inflight

\* What line_bot_api.reply_message can come to for a reply sent outside the
\* handler's try blocks.
Deliveries == {"sent", "fallback", "lost"}

Deliver(delivery, op, group, id, reply) ==
    /\ last' = [Handled(op, group, id, reply) EXCEPT !.delivery = delivery]
    /\ UNCHANGED inflight

\* Variant for C30: a rollback that takes the store back to where the request
\* found it.
rollback_wholeRequest(committed, at_request_start) == at_request_start

\* get_db's db.rollback() on an exception that leaves the handler: the store
\* is what the session committed.
rollback(committed, at_request_start) == committed

\* handle_text_message's own except clauses: an exception that leaves a handler
\* is answered with the generic internal-error text.  get_db rolls back.
InternalError == Reply("internal_error", 0, "")

(* ------------------------ models.create_task -------------------------- *)
\* Variant for C19: create_task without its check of the member list.
CreateTaskOutcome_noMemberCheck(kwargs, commit_ok) ==
    IF ~CreateTaskAccepts(DOMAIN kwargs) THEN "TypeError"
    ELSE IF ~commit_ok THEN "SQLAlchemyError"
    ELSE "created"

\* What a call create_task(db, **kwargs) does: TypeError when the keywords do
\* not bind to its parameters, ValueError for an empty member list, otherwise
\* the insert, which the commit may fail.
CreateTaskOutcome(kwargs, commit_ok) ==
    IF ~CreateTaskAccepts(DOMAIN kwargs) THEN "TypeError"
    ELSE IF kwargs.members = {} THEN "ValueError"
    ELSE IF ~commit_ok THEN "SQLAlchemyError"
    ELSE "created"

\* create_task called as models.py declares it, with a list of Member rows and
\* the default status.  No caller in app.py binds (see handle_add_task); the
\* function is the store's only way to a task row, and is exercised directly.
create_task(ms, content, due_date, priority) ==
    LET kwargs == [members |-> ms, content |-> content, due_date |-> due_date,
                   priority |-> priority]
    IN  \E commit_ok \in Outcomes(CreateTaskAccepts(DOMAIN kwargs) /\ ms # {}) :
        LET outcome == CreateTaskOutcome(kwargs, commit_ok) IN
        /\ IF outcome = "created"
           THEN /\ tasks' = tasks \cup {TaskRow(nextTaskId, kwargs)}
                /\ nextTaskId' = nextTaskId + 1
                /\ Respond("create_task", "", nextTaskId,
                           Reply("created", nextTaskId, content))
           ELSE /\ UNCHANGED <<tasks, nextTaskId>>
                /\ Respond("create_task", "", 0, Reply(outcome, 0, ""))
        /\ UNCHANGED <<members, nextMemberId, sessions, now>>

(* ------------------------- handle_add_task ---------------------------- *)
handle_add_task(group_id, member_name, priority_tag, task_content, due_date_str) ==
    LET due_date == parse_date(due_date_str)
        found == get_member_by_name_and_group(member_name, group_id)
        member == IF found # {} THEN The(found)
                  ELSE MemberRow(nextMemberId, member_name, group_id)
        \* create_task(db, member_id=member.id, content=..., due_date=..., priority=...)
        kwargs == [member_id |-> member.id, content |-> task_content,
                   due_date |-> due_date, priority |-> PriorityOfTag(priority_tag)]
    IN  \E member_ok \in Outcomes(found = {}),
           commit_ok \in Outcomes(CreateTaskAccepts(DOMAIN kwargs)) :
        LET outcome == CreateTaskOutcome(kwargs, commit_ok) IN
        /\ outcome = "created" => nextTaskId <= MaxTasks
        /\ UNCHANGED <<sessions, now>>
        /\ IF member_name = "" \/ task_content = ""
           THEN /\ Respond("add", group_id, 0, Reply("missing_parameter", 0, ""))
                /\ UNCHANGED store
           ELSE IF due_date_str # None /\ due_date = None
           THEN /\ Respond("add", group_id, 0, Reply("date_format_error", 0, ""))
                /\ UNCHANGED store
           ELSE IF found = {} /\ ~member_ok
           THEN \* create_member raised and rolled back
                /\ Respond("add", group_id, 0, Reply("member_create_failed", 0, ""))
                /\ UNCHANGED store
           ELSE /\ members' = members \cup {member}
                /\ nextMemberId' = IF found = {} THEN nextMemberId + 1 ELSE nextMemberId
                /\ IF outcome = "created"
                   THEN /\ tasks' = tasks \cup {TaskRow(nextTaskId, kwargs)}
                        /\ nextTaskId' = nextTaskId + 1
                        /\ Respond("add", group_id, nextTaskId,
                                   Reply("added", nextTaskId, task_content))
                   ELSE /\ UNCHANGED <<tasks, nextTaskId>>
                        /\ Respond("add", group_id, 0,
                                   Reply(IF outcome = "SQLAlchemyError"
                                         THEN "add_failed_db" ELSE "add_failed_internal",
                                         0, ""))

(* ----------------------- handle_complete_task ------------------------- *)
\* Variant for C4: the chain without its already-completed branch.
CompleteGuard_noIdempotence(found) ==
    IF found = {} THEN "not_found" ELSE "transition"

\* The branch the if/elif chain takes.
CompleteGuard(found) ==
    IF found = {} THEN "not_found"
    ELSE IF The(found).status = "completed" THEN "already"
    ELSE "transition"

\* Variants for C1 and C2: the timestamp forgotten; another status word.
CompletedRow_noTimestamp(t, day) == [t EXCEPT !.status = "completed"]

CompletedRow_wrongStatus(t, day) ==
    [t EXCEPT !.status = "done", !.completed_at = Some(day)]

\* task.status = 'completed'; task.completed_at = datetime.now(timezone.utc)
CompletedRow(t, day) == [t EXCEPT !.status = "completed", !.completed_at = Some(day)]

\* The handler is given the sender's user id and no group id: group_id is the
\* group the message came from, kept with the reply and read by nothing here.
handle_complete_task(group_id, task_id_num) ==
    LET found == get_task_by_id(task_id_num)
        branch == CompleteGuard(found)
        task == The(found)
        completed == (tasks \ {task}) \cup {CompletedRow(task, now)}
    IN  \E commit_ok \in Outcomes(branch = "transition"), delivery \in Deliveries :
        /\ UNCHANGED <<members, nextMemberId, nextTaskId, sessions, now>>
        /\ IF branch = "not_found"
           THEN /\ Deliver(delivery, "complete", group_id, task_id_num,
                           Reply("not_found", task_id_num, ""))
                /\ UNCHANGED tasks
           ELSE IF branch = "already"
           THEN /\ Deliver(delivery, "complete", group_id, task_id_num,
                           Reply("already_completed", task_id_num, task.content))
                /\ UNCHANGED tasks
           ELSE IF ~commit_ok
           THEN \* db.commit() raised SQLAlchemyError; db.rollback()
                /\ Deliver(delivery, "complete", group_id, task_id_num,
                           Reply("complete_failed_db", task_id_num, ""))
                /\ UNCHANGED tasks
           ELSE \* committed; the reply text then reads task.member.name
                \* and the reply is sent outside the try block
                /\ tasks' = IF delivery = "sent" THEN completed
                            ELSE rollback(completed, tasks)
                /\ Deliver(delivery, "complete", group_id, task_id_num,
                           IF TaskHasAttr("member")
                           THEN Reply("completed", task_id_num, task.content)
                           ELSE Reply("complete_failed_internal", task_id_num, ""))


(* ------------------------- handle_list_tasks -------------------------- *)
\* Variant for C20: priorities ranked by urgency, low < normal < high.
PriorityTextRank_byUrgency(priority) ==
    IF priority = "low" THEN 1 ELSE IF priority = "normal" THEN 2 ELSE 3

\* The place of a priority in the order of the column's text values:
\* 'high' < 'low' < 'normal'.
PriorityTextRank(priority) ==
    IF priority = "high" THEN 1 ELSE IF priority = "low" THEN 2 ELSE 3

\* created_at is the server's clock at the insert; rows inserted one after the
\* other have it in the order of their ids.
CreatedBefore(a, b) == a.id < b.id

\* order_by(Task.due_date.asc().nulls_last(), Task.priority.desc(),
\*          Task.created_at.asc())
OrderedBefore(a, b) ==
    \/ a.due_date # None /\ (b.due_date = None \/ The(a.due_date) < The(b.due_date))
    \/ /\ a.due_date = b.due_date
       /\ \/ PriorityTextRank(a.priority) > PriorityTextRank(b.priority)
          \/ a.priority = b.priority /\ CreatedBefore(a, b)

\* The rows of a query result in the order of its order_by.
RECURSIVE InOrder(_)
InOrder(rows) ==
    IF rows = {} THEN <<>>
    ELSE LET first == CHOOSE t \in rows : \A u \in rows \ {t} : OrderedBefore(t, u)
         IN  <<first>> \o InOrder(rows \ {first})

\* Variant for C21: the query without its condition on the member.
get_pending_tasks_by_member_id_anyMember(member_id) ==
    InOrder({t \in tasks : t.status = "pending"})

get_pending_tasks_by_member_id(member_id) ==
    InOrder({t \in tasks : t.status = "pending" /\ \E m \in t.members : m.id = member_id})

get_pending_tasks_by_group_id(group_id) ==
    InOrder({t \in tasks :
                t.status = "pending" /\ \E m \in t.members : m.group_id = group_id})

\* create_task_list_bubble: one entry per task, in the order given.  The entry
\* names the task by its id; reading task.member raises AttributeError, which
\* the loop catches for each task and answers with the cannot-display entry
\* in place of content, assignee and due date.
create_task_list_bubble(rows) ==
    [kind |-> IF TaskHasAttr("member") THEN "task_list" ELSE "task_list_unreadable",
     id |-> 0, content |-> "", stored |-> 0, failed |-> 0,
     listed |-> [i \in 1..Len(rows) |-> rows[i].id], options |-> <<>>, count |-> 0]

\* member_name is the name of the optional filter, "" for none.
handle_list_tasks(group_id, member_name) ==
    LET found == get_member_by_name_and_group(member_name, group_id)
        rows == IF member_name # ""
                THEN get_pending_tasks_by_member_id(The(found).id)
                ELSE get_pending_tasks_by_group_id(group_id)
    IN  /\ UNCHANGED <<store, sessions, now>>
        /\ IF member_name # "" /\ found = {}
           THEN Respond("list", group_id, 0, Reply("member_not_found", 0, ""))
           ELSE IF rows = <<>>
           THEN Respond("list", group_id, 0, Reply("nothing_pending", 0, ""))
           ELSE Respond("list", group_id, 0, create_task_list_bubble(rows))

(* ------------------------ handle_delete_task -------------------------- *)
\* The branch the if/elif chain takes; the elif reads task.member.group_id
\* outside any try block.
DeleteGuard(found, group_id) ==
    IF found = {} THEN "not_found"
    ELSE IF ~TaskHasAttr("member") THEN "AttributeError"
    ELSE IF The(found)["member"].group_id # group_id THEN "wrong_group"
    ELSE "proceed"

handle_delete_task(group_id, task_id_num) ==
    LET found == get_task_by_id(task_id_num)
        branch == DeleteGuard(found, group_id)
        task == The(found)
    IN  \E commit_ok \in Outcomes(branch = "proceed") :
        /\ UNCHANGED <<members, nextMemberId, nextTaskId, sessions, now>>
        /\ IF branch = "not_found"
           THEN /\ Respond("delete", group_id, task_id_num,
                           Reply("not_found", task_id_num, ""))
                /\ UNCHANGED tasks
           ELSE IF branch = "AttributeError"
           THEN /\ Respond("delete", group_id, task_id_num, InternalError)
                /\ UNCHANGED tasks
           ELSE IF branch = "wrong_group"
           THEN /\ Respond("delete", group_id, task_id_num,
                           Reply("wrong_group", task_id_num, ""))
                /\ UNCHANGED tasks
           ELSE IF ~TaskHasAttr("member")
           THEN \* member_name = task.member.name raises inside the try
                /\ Respond("delete", group_id, task_id_num,
                           Reply("delete_failed_internal", task_id_num, ""))
                /\ UNCHANGED tasks
           ELSE IF ~commit_ok
           THEN /\ Respond("delete", group_id, task_id_num,
                           Reply("delete_failed_db", task_id_num, ""))
                /\ UNCHANGED tasks
           ELSE /\ tasks' = tasks \ {task}
                /\ Respond("delete", group_id, task_id_num,
                           Reply("deleted", task_id_num, task.content))

(* ------------------------- handle_edit_task --------------------------- *)
\* Variant for C7: the chain without the group check.
EditGuard_noGroupCheck(found, group_id) ==
    IF found = {} THEN "not_found" ELSE "proceed"

\* The branch the if/elif chain takes; the elif reads task.member.group_id
\* outside any try block.
EditGuard(found, group_id) ==
    IF found = {} THEN "not_found"
    ELSE IF ~TaskHasAttr("member") THEN "AttributeError"
    ELSE IF The(found)["member"].group_id # group_id THEN "wrong_group"
    ELSE "proceed"

\* The assignments of the try block: content always, priority when a tag was
\* given, due_date when a date token was given and parsed.
EditedRow(t, priority_tag, new_content, new_due_date_str) ==
    [t EXCEPT !.content = new_content,
              !.priority = IF priority_tag # "" THEN PriorityOfTag(priority_tag) ELSE @,
              !.due_date = IF new_due_date_str # None
                           THEN parse_date(new_due_date_str) ELSE @]

\* Variant for C10: an edit that is carried out and reopens the task.
handle_edit_task_reopening(group_id, task_id_num, priority_tag, new_content, new_due_date_str) ==
    LET found == get_task_by_id(task_id_num)
        task == The(found)
    IN  /\ UNCHANGED <<members, nextMemberId, nextTaskId, sessions, now>>
        /\ Respond("edit", group_id, task_id_num,
                   Reply(IF found = {} THEN "not_found" ELSE "edited", task_id_num, ""))
        /\ tasks' = IF found = {} THEN tasks
                    ELSE (tasks \ {task}) \cup
                         {[EditedRow(task, priority_tag, new_content, None)
                             EXCEPT !.status = "pending", !.completed_at = None]}

handle_edit_task(group_id, task_id_num, priority_tag, new_content, new_due_date_str) ==
    LET found == get_task_by_id(task_id_num)
        branch == EditGuard(found, group_id)
        task == The(found)
    IN  \E commit_ok \in Outcomes(branch = "proceed") :
        /\ UNCHANGED <<members, nextMemberId, nextTaskId, sessions, now>>
        /\ IF branch = "not_found"
           THEN /\ Respond("edit", group_id, task_id_num,
                           Reply("not_found", task_id_num, ""))
                /\ UNCHANGED tasks
           ELSE IF branch = "AttributeError"
           THEN /\ Respond("edit", group_id, task_id_num, InternalError)
                /\ UNCHANGED tasks
           ELSE IF branch = "wrong_group"
           THEN /\ Respond("edit", group_id, task_id_num,
                           Reply("wrong_group", task_id_num, ""))
                /\ UNCHANGED tasks
           ELSE IF new_content = ""
           THEN /\ Respond("edit", group_id, task_id_num,
                           Reply("content_empty", task_id_num, ""))
                /\ UNCHANGED tasks
           ELSE IF new_due_date_str # None /\ parse_date(new_due_date_str) = None
           THEN /\ Respond("edit", group_id, task_id_num,
                           Reply("date_format_error", task_id_num, ""))
                /\ UNCHANGED tasks
           ELSE IF ~commit_ok
           THEN /\ Respond("edit", group_id, task_id_num,
                           Reply("edit_failed_db", task_id_num, ""))
                /\ UNCHANGED tasks
           ELSE \* committed; the reply text then reads task.member.name
                /\ tasks' = (tasks \ {task}) \cup
                            {EditedRow(task, priority_tag, new_content, new_due_date_str)}
                /\ Respond("edit", group_id, task_id_num,
                           IF TaskHasAttr("member")
                           THEN Reply("edited", task_id_num, new_content)
                           ELSE Reply("edit_failed_internal", task_id_num, ""))

(* ------------------------ handle_task_details ------------------------- *)
\* Variant for C8: the reply when every attribute the handler reads resolves.
DetailReply_attributesResolved(task_id_num) ==
    LET found == get_task_by_id(task_id_num) IN
    IF found = {} THEN Reply("not_found", task_id_num, "")
    ELSE Reply("detail", task_id_num, The(found).content)

\* The handler is given neither the group id nor the user id.  Its query is
\* built with joinedload(Task.member) before any row is read; every failure
\* inside it is answered with the detail-specific internal-error text.

DetailReply(task_id_num) ==
    IF ~TaskHasAttr("member")
    THEN Reply("detail_failed_internal", task_id_num, "")
    ELSE LET found == get_task_by_id(task_id_num) IN
         IF found = {} THEN Reply("not_found", task_id_num, "")
         ELSE IF ~TaskHasAttr("is_recurring")
         THEN Reply("detail_failed_internal", task_id_num, "")
         ELSE IF ~The(found)["is_recurring"] /\ ~TaskHasAttr("parent_task_id")
         THEN Reply("detail_failed_internal", task_id_num, "")
         ELSE Reply("detail", task_id_num, The(found).content)

handle_task_details(group_id, task_id_num) ==
    /\ Respond("detail", group_id, task_id_num, DetailReply(task_id_num))
    /\ UNCHANGED <<store, sessions, now>>


(* ----------------------- handle_recurring_task ------------------------ *)
\* The recurrence the regex captured: every day, a weekday, a day of the
\* month, a day of a month of the year.
RecurrenceInputs ==
    {[kind |-> "daily", month |-> 0, day |-> 0],
     [kind |-> "monthly", month |-> 0, day |-> 32]}

\* system_pattern is set unless the day or month is out of range.
HasSystemPattern(r) ==
    \/ r.kind \in {"daily", "weekly"}
    \/ r.kind = "monthly" /\ r.day >= 1 /\ r.day <= 31
    \/ r.kind = "yearly" /\ r.month >= 1 /\ r.month <= 12 /\ r.day >= 1 /\ r.day <= 31

\* Task(member_id=, content=, status='recurring_master', priority=,
\*      is_recurring=True, recurrence_pattern=, recurrence_count=0)
RecurringKwargs(member, priority_tag, task_content) ==
    [member_id |-> member.id, content |-> task_content, status |-> "recurring_master",
     priority |-> PriorityOfTag(priority_tag), is_recurring |-> TRUE,
     recurrence_pattern |-> "", recurrence_count |-> 0]

handle_recurring_task(group_id, member_name, priority_tag, task_content, recurrence_input) ==
    LET found == get_member_by_name_and_group(member_name, group_id)
        member == IF found # {} THEN The(found)
                  ELSE MemberRow(nextMemberId, member_name, group_id)
        kwargs == RecurringKwargs(member, priority_tag, task_content)
        accepted == TaskConstructorAccepts(DOMAIN kwargs)
    IN  \E member_ok \in Outcomes(found = {}), commit_ok \in Outcomes(accepted) :
        /\ accepted => nextTaskId <= MaxTasks
        /\ UNCHANGED <<sessions, now>>
        /\ IF ~HasSystemPattern(recurrence_input)
           THEN /\ Respond("recurring", group_id, 0, Reply("bad_pattern", 0, ""))
                /\ UNCHANGED store
           ELSE IF found = {} /\ ~member_ok
           THEN /\ Respond("recurring", group_id, 0,
                           Reply("member_create_failed", 0, ""))
                /\ UNCHANGED store
           ELSE /\ members' = members \cup {member}
                /\ nextMemberId' = IF found = {} THEN nextMemberId + 1 ELSE nextMemberId
                /\ IF accepted /\ commit_ok
                   THEN /\ tasks' = tasks \cup {TaskRow(nextTaskId, kwargs)}
                        /\ nextTaskId' = nextTaskId + 1
                        /\ Respond("recurring", group_id, nextTaskId,
                                   Reply("recurring_added", nextTaskId, task_content))
                   ELSE /\ UNCHANGED <<tasks, nextTaskId>>
                        /\ Respond("recurring", group_id, 0,
                                   Reply(IF accepted THEN "recurring_failed_db"
                                         ELSE "recurring_failed_internal", 0, ""))

(* -------------------- handle_cancel_recurring_task -------------------- *)
\* The branch the if/elif chain takes; `not task.is_recurring` is read outside
\* any try block.
CancelGuard(found, group_id) ==
    IF found = {} THEN "not_found"
    ELSE IF ~TaskHasAttr("is_recurring") THEN "AttributeError"
    ELSE IF ~The(found)["is_recurring"] THEN "not_recurring"
    ELSE IF ~TaskHasAttr("member") THEN "AttributeError"
    ELSE IF The(found)["member"].group_id # group_id THEN "wrong_group"
    ELSE "proceed"

handle_cancel_recurring_task(group_id, task_id_num) ==
    LET found == get_task_by_id(task_id_num)
        branch == CancelGuard(found, group_id)
        task == The(found)
    IN  \E commit_ok \in Outcomes(branch = "proceed") :
        /\ UNCHANGED <<members, nextMemberId, nextTaskId, sessions, now>>
        /\ IF branch = "AttributeError"
           THEN /\ Respond("cancel_recurring", group_id, task_id_num, InternalError)
                /\ UNCHANGED tasks
           ELSE IF branch # "proceed"
           THEN /\ Respond("cancel_recurring", group_id, task_id_num,
                           Reply(branch, task_id_num, ""))
                /\ UNCHANGED tasks
           ELSE IF ~commit_ok
           THEN /\ Respond("cancel_recurring", group_id, task_id_num,
                           Reply("cancel_failed_db", task_id_num, ""))
                /\ UNCHANGED tasks
           ELSE /\ tasks' = (tasks \ {task}) \cup
                            {[task EXCEPT !["is_recurring"] = FALSE,
                                          !.status = "cancelled_recurring"]}
                /\ Respond("cancel_recurring", group_id, task_id_num,
                           Reply("recurring_cancelled", task_id_num, task.content))


(* ------------------------- handle_random_pick ------------------------- *)
\* The text behind the keyword of a pick command, character by character:
\* nothing, blanks only, one option, three options of which two are equal,
\* options with a doubled and a trailing blank, an option of two characters,
\* and an option that follows the keyword without a blank.
PickTexts ==
    {<<>>,
     <<" ">>,
     <<" ", " ">>,
     <<" ", "A">>,
     <<" ", "A", " ", "A", " ", "B">>,
     <<" ", "A", " ", " ", "B", " ">>,
     <<" ", "A", "B", " ", "A">>,
     <<"A">>}

\* str.strip() of the whole message: the keyword stays, blanks at the end go.
RECURSIVE strip(_)
strip(chars) ==
    IF chars # <<>> /\ chars[Len(chars)] = " "
    THEN strip(SubSeq(chars, 1, Len(chars) - 1))
    ELSE chars

RECURSIVE lstrip(_)
lstrip(chars) == IF chars # <<>> /\ Head(chars) = " " THEN lstrip(Tail(chars)) ELSE chars

\* re.match(RANDOM_PICK_PATTERN, text) on the stripped message: \s+ needs a
\* blank behind the keyword and (.+) a character behind the blanks.  None for
\* no match, else group 1.
pick_match(chars) ==
    LET text == strip(chars) IN
    IF text # <<>> /\ Head(text) = " " /\ lstrip(text) # <<>>
    THEN Some(lstrip(text))
    ELSE None

\* str.split(): the runs of characters between blanks, in order.
RECURSIVE split(_)
split(chars) ==
    IF chars = <<>> THEN <<>>
    ELSE IF Head(chars) = " " THEN split(Tail(chars))
    ELSE IF Len(chars) > 1 /\ chars[2] # " "
    THEN LET rest == split(Tail(chars)) IN <<Head(chars) \o Head(rest)>> \o Tail(rest)
    ELSE <<Head(chars)>> \o split(Tail(chars))

\* Variant for C23: the options with repeated ones dropped.
RECURSIVE Distinct(_)
Distinct(options) ==
    IF options = <<>> THEN <<>>
    ELSE LET front == Distinct(SubSeq(options, 1, Len(options) - 1))
             final == options[Len(options)]
         IN  IF \E i \in 1..Len(front) : front[i] = final THEN front
             ELSE front \o <<final>>

PickOptions_distinct(options_text) == Distinct(split(options_text))

\* options = [opt.strip() for opt in options_text.split() if opt.strip()]
PickOptions(options_text) == split(options_text)

PickReply(options, chosen) ==
    [kind |-> "picked", id |-> 0, content |-> chosen, stored |-> 0, failed |-> 0,
     listed |-> <<>>, options |-> options, count |-> Len(options)]

\* random.choice(options) draws any of the options.
handle_random_pick(group_id, options_text) ==
    LET options == PickOptions(options_text) IN
    /\ UNCHANGED <<store, sessions, now>>
    /\ IF options = <<>>
       THEN Respond("pick", group_id, 0, Reply("pick_usage", 0, ""))
       ELSE \E i \in 1..Len(options) :
               Respond("pick", group_id, 0, PickReply(options, options[i]))

(* ----------------------- handle_batch_add_tasks ----------------------- *)
\* A task line after steps 1 and 2 of the loop took the priority tag off its
\* head and the date token off its tail.
BatchLine(priority_tag, content, date_str) ==
    [priority_tag |-> priority_tag, content |-> content, date_str |-> date_str]

Batches ==
    {<<>>,
     <<BatchLine("", "buy lunch", None)>>,
     <<BatchLine("!high", "buy lunch", Some([y |-> 2025, m |-> 1, d |-> 10])),
       BatchLine("", "buy lunch", Some([y |-> 2025, m |-> 13, d |-> 45]))>>,
     \* a line that is a date and nothing else, between two lines of content
     <<BatchLine("", "buy lunch", None),
       BatchLine("", "", Some([y |-> 2025, m |-> 1, d |-> 10])),
       BatchLine("", "buy lunch", None)>>,
     \* no line that parses
     <<BatchLine("", "buy lunch", Some([y |-> 2025, m |-> 13, d |-> 45]))>>}

\* error_msg is set for a token parse_date rejects and for empty content.
BatchLineError(line) ==
    \/ line.date_str # None /\ parse_date(line.date_str) = None
    \/ line.content = ""

\* Task(member_id=, content=, due_date=, priority=, status='pending')
BatchKwargs(member, line) ==
    [member_id |-> member.id, content |-> line.content,
     due_date |-> parse_date(line.date_str),
     priority |-> PriorityOfTag(line.priority_tag), status |-> "pending"]

\* Variant for C36: a line whose Task object could not be built is dropped.
failure_count_parseOnly(task_lines, valid, tasks_to_add, commit_ok) ==
    (Len(task_lines) - Cardinality(valid))
      + (IF commit_ok THEN 0 ELSE Cardinality(tasks_to_add))

\* failure_count = len(failed_lines_info): the lines with an error_msg
\* (step 4), the lines whose Task(...) raised, and, when add_all, flush or
\* commit raised, every line of created_tasks_info (step 5).
failure_count(task_lines, valid, tasks_to_add, commit_ok) ==
    (Len(task_lines) - Cardinality(valid))
      + Cardinality(valid \ tasks_to_add)
      + (IF commit_ok THEN 0 ELSE Cardinality(tasks_to_add))

handle_batch_add_tasks(group_id, member_name, task_lines) ==
    LET found == get_member_by_name_and_group(member_name, group_id)
        member == IF found # {} THEN The(found)
                  ELSE MemberRow(nextMemberId, member_name, group_id)
        valid == {i \in 1..Len(task_lines) : ~BatchLineError(task_lines[i])}
        tasks_to_add ==
            {i \in valid : TaskConstructorAccepts(DOMAIN BatchKwargs(member, task_lines[i]))}
        \* flush assigns ids in the order of the list
        IdOf(i) == nextTaskId + Cardinality({j \in tasks_to_add : j < i})
    IN  \E member_ok \in Outcomes(found = {}), commit_ok \in Outcomes(tasks_to_add # {}) :
        LET stored == IF commit_ok THEN tasks_to_add ELSE {} IN
        /\ nextTaskId + Cardinality(tasks_to_add) <= MaxTasks + 1
        /\ UNCHANGED <<sessions, now>>
        /\ IF Len(task_lines) = 0
           THEN /\ Respond("batch", group_id, 0, Reply("batch_usage", 0, ""))
                /\ UNCHANGED store
           ELSE IF found = {} /\ ~member_ok
           THEN /\ Respond("batch", group_id, 0,
                           Reply("member_create_failed", 0, ""))
                /\ UNCHANGED store
           ELSE /\ members' = members \cup {member}
                /\ nextMemberId' = IF found = {} THEN nextMemberId + 1 ELSE nextMemberId
                /\ tasks' = tasks \cup
                       {TaskRow(IdOf(i), BatchKwargs(member, task_lines[i])) : i \in stored}
                /\ nextTaskId' = nextTaskId + Cardinality(stored)
                /\ Respond("batch", group_id, 0,
                           BatchReply(Cardinality(stored),
                                      failure_count(task_lines, valid, tasks_to_add,
                                                    commit_ok)))

(* ----------------------- guided task creation ------------------------- *)
\* The guide command (NEW_TASK_GUIDE_PATTERN): the dispatcher stores a session at step
\* get_content and asks for the content.
new_task_guide(user, group_id) ==
    /\ sessions' = [sessions EXCEPT ![session_key(user, group_id)] =
                        [NoSession EXCEPT !.state = "creating_task", !.step = "get_content"]]
    /\ Respond("new_task_guide", group_id, 0, Reply("ask_content", 0, ""))
    /\ UNCHANGED <<store, now>>

\* The texts sent into a conversation, in ASCII: "high" for the priority word,
\* "none" for the skip word, "soon" for a text that is none of these.
\* "#list" stands for the list command typed while the guide waits for input.
ConvTexts == {"buy lunch", "@Alice", "@", "high", "none", "2025/1/10", "soon", "#list"}

\* The texts among them that are a standard command when no conversation is
\* active.
CommandTexts == {"#list"}

\* text.lstrip('@').strip()
StripAt(text) ==
    IF text = "@Alice" THEN "Alice" ELSE IF text = "@" THEN "" ELSE text

\* The first key of priority_map found in the text.
SelectedPriority(text) == IF text = "high" THEN Some("high") ELSE None

SkipsDueDate(text) == text = "none"

\* datetime.strptime(text, "%Y/%m/%d"); None stands for ValueError.
strptime(text) == IF text = "2025/1/10" THEN Some(DayKey(2025, 1, 10)) ELSE None

\* create_conversation_task: the reply it sends and the member it leaves.
\* create_task(db, member_id=...) is the call of handle_add_task.
create_conversation_task(group_id, session, due_date, delivery) ==
    LET found == get_member_by_name_and_group(session.member_name, group_id)
        member == IF found # {} THEN The(found)
                  ELSE MemberRow(nextMemberId, session.member_name, group_id)
        kwargs == [member_id |-> member.id, content |-> session.content,
                   due_date |-> due_date, priority |-> session.priority]
    IN  \E member_ok \in Outcomes(found = {}),
           commit_ok \in Outcomes(CreateTaskAccepts(DOMAIN kwargs)) :
        LET outcome == CreateTaskOutcome(kwargs, commit_ok) IN
        /\ outcome = "created" => nextTaskId <= MaxTasks
        /\ IF session.member_name = "" \/ session.content = ""
           THEN /\ Deliver(delivery, "conversation", group_id, 0, Reply("incomplete", 0, ""))
                /\ UNCHANGED store
           ELSE IF found = {} /\ ~member_ok
           THEN /\ Deliver(delivery, "conversation", group_id, 0,
                           Reply("member_create_failed", 0, ""))
                /\ UNCHANGED store
           ELSE /\ members' = members \cup {member}
                /\ nextMemberId' = IF found = {} THEN nextMemberId + 1 ELSE nextMemberId
                /\ IF outcome = "created"
                   THEN /\ tasks' = tasks \cup {TaskRow(nextTaskId, kwargs)}
                        /\ nextTaskId' = nextTaskId + 1
                        /\ Deliver(delivery, "conversation", group_id, nextTaskId,
                                   Reply("added", nextTaskId, session.content))
                   ELSE /\ UNCHANGED <<tasks, nextTaskId>>
                        /\ Deliver(delivery, "conversation", group_id, 0,
                                   Reply(IF outcome = "SQLAlchemyError"
                                         THEN "add_failed_db" ELSE "add_failed_internal",
                                         0, ""))

\* Variant for C34: the get_member step creates the member it does not find.
get_member_step_members_created(member_name, group_id) ==
    IF get_member_by_name_and_group(member_name, group_id) # {} THEN members
    ELSE members \cup {MemberRow(nextMemberId, member_name, group_id)}

\* The members table after the get_member step: the step looks the name up
\* and, when there is no such member, only logs that the member will be
\* created together with the task.
get_member_step_members(member_name, group_id) == members

\* Variant for C31: the content step hands over to the priority step.
NextStep_skipping(step) ==
    IF step = "get_content" THEN "get_priority"
    ELSE IF step = "get_member" THEN "get_priority"
    ELSE "get_due_date"

\* user_session['step'] = ... : the step a step hands over to.
NextStep(step) ==
    IF step = "get_content" THEN "get_member"
    ELSE IF step = "get_member" THEN "get_priority"
    ELSE "get_due_date"

\* handle_conversation_state for state 'creating_task': every step consumes the
\* message (returns True).
handle_conversation_state(user, group_id, text) ==
    LET key == session_key(user, group_id)
        session == sessions[key]
        Say(kind) == Respond("conversation", group_id, 0, Reply(kind, 0, ""))
    IN  /\ session.state = "creating_task"
        /\ UNCHANGED now
        /\ IF session.step = "get_content"
           THEN /\ text \in Contents \cup CommandTexts
                /\ sessions' = [sessions EXCEPT ![key] =
                                    [session EXCEPT !.content = text,
                                                    !.step = NextStep(session.step)]]
                /\ Say("ask_member")
                /\ UNCHANGED store
           ELSE IF session.step = "get_member"
           THEN /\ StripAt(text) \in Names \cup {""}
                /\ IF StripAt(text) = ""
                   THEN /\ Say("member_name_empty")
                        /\ UNCHANGED sessions
                   ELSE /\ sessions' = [sessions EXCEPT ![key] =
                                            [session EXCEPT !.member_name = StripAt(text),
                                                            !.step = NextStep(session.step)]]
                        /\ Say("ask_priority")
                /\ members' = get_member_step_members(StripAt(text), group_id)
                /\ UNCHANGED <<tasks, nextMemberId, nextTaskId>>
           ELSE IF session.step = "get_priority"
           THEN /\ IF SelectedPriority(text) # None
                   THEN /\ sessions' = [sessions EXCEPT ![key] =
                                            [session EXCEPT
                                                !.priority = The(SelectedPriority(text)),
                                                !.step = NextStep(session.step)]]
                        /\ Say("ask_due_date")
                   ELSE /\ Say("priority_invalid")
                        /\ UNCHANGED sessions
                /\ UNCHANGED store
           ELSE /\ session.step = "get_due_date"
                /\ IF ~SkipsDueDate(text) /\ strptime(text) = None
                   THEN /\ Say("date_format_error")
                        /\ UNCHANGED <<store, sessions>>
                   ELSE \* a reply of create_conversation_task that raises leaves
                        \* the function before clear_session is reached
                        \E delivery \in Deliveries :
                           /\ create_conversation_task(group_id, session,
                                   IF SkipsDueDate(text) THEN None ELSE strptime(text),
                                   delivery)
                           /\ sessions' = IF delivery = "sent"
                                          THEN [sessions EXCEPT ![key] = NoSession]
                                          ELSE sessions

(* -------------------- api_generate_recurring_tasks -------------------- *)
\* The endpoint answers 401 without the API key.  With it, the query for the
\* recurring masters is built with joinedload(Task.member) and
\* Task.is_recurring: the AttributeError is caught by the endpoint's except
\* clause, which rolls back and answers 500.  No Task is constructed.
api_generate_recurring_tasks(authorized) ==
    /\ Respond("generate_recurring", "", 0,
               IF ~authorized THEN Reply("unauthorized", 0, "")
               ELSE IF ~TaskHasAttr("member") \/ ~TaskHasAttr("is_recurring")
               THEN Reply("generate_failed_internal", 0, "")
               ELSE Reply("generated", 0, ""))
    /\ UNCHANGED <<store, sessions, now>>

(* ------------------------ handle_text_message ------------------------- *)
\* A message from a source that is neither a group nor a room is dropped
\* without a reply.
ignore_direct_message(user, text) ==
    /\ last' = Handled("ignored", Private, 0, NoReply)
    /\ UNCHANGED <<store, sessions, now, inflight>>

\* The last else of the command chain: a text that matches no pattern and is
\* no help or form command is logged and not answered.
no_command(group_id, text) ==
    /\ last' = Handled("no_command", group_id, 0, NoReply)
    /\ UNCHANGED <<store, sessions, now, inflight>>

\* The standard commands are matched only when no conversation consumes the
\* message: a command in a group comes from a sender without a session there.
\* The handlers use the sender's id for logging only.
Dispatch(group_id) == \E user \in Users : ~ActiveConversation(user, group_id)

Next ==
    \/ Tick
    \/ \E ms \in SUBSET members, c \in Contents, due \in {None, Some(DayKey(2025, 1, 10))},
          p \in {"normal"} :
          nextTaskId <= MaxTasks /\ create_task(ms, c, due, p)
    \/ \E u \in Users, text \in PrivateTexts : ignore_direct_message(u, text)
    \/ \E g \in MemberGroups, text \in AddTexts :
          Dispatch(g) /\ add_match(text) = None /\ no_command(g, text)
    \/ \E g \in MemberGroups, text \in AddTexts :
          /\ Dispatch(g) /\ add_match(text) # None
          /\ LET match == The(add_match(text)) IN
             handle_add_task(g, match.member_name, match.priority_tag,
                             match.task_content, match.due_date_str)
    \/ \E g \in Groups, id \in 1..(MaxTasks + 1) :
          Dispatch(g) /\ handle_complete_task(g, id)
    \/ \E g \in Groups, n \in Names \cup {""} :
          Dispatch(g) /\ handle_list_tasks(g, n)
    \/ \E g \in Groups, id \in 1..(MaxTasks + 1) :
          Dispatch(g) /\ handle_delete_task(g, id)
    \/ \E g \in Groups, id \in 1..(MaxTasks + 1), tag \in PriorityTags,
          c \in Contents, d \in DateStrs :
          Dispatch(g) /\ handle_edit_task(g, id, tag, c, d)
    \/ \E g \in Groups, id \in 1..(MaxTasks + 1) :
          Dispatch(g) /\ handle_task_details(g, id)
    \/ \E g \in MemberGroups, text \in PickTexts :
          Dispatch(g) /\ pick_match(text) = None /\ no_command(g, text)
    \/ \E g \in MemberGroups, text \in PickTexts :
          Dispatch(g) /\ pick_match(text) # None
                      /\ handle_random_pick(g, The(pick_match(text)))
    \/ \E g \in MemberGroups, n \in Names, b \in Batches :
          Dispatch(g) /\ handle_batch_add_tasks(g, n, b)
    \/ \E g \in MemberGroups, n \in Names, tag \in PriorityTags, c \in Contents,
          r \in RecurrenceInputs :
          Dispatch(g) /\ handle_recurring_task(g, n, tag, c, r)
    \/ \E g \in Groups, id \in 1..(MaxTasks + 1) :
          Dispatch(g) /\ handle_cancel_recurring_task(g, id)
    \/ \E authorized \in BOOLEAN : api_generate_recurring_tasks(authorized)
    \/ \E k \in GuidedSenders : ~ActiveConversation(k[1], k[2]) /\ new_task_guide(k[1], k[2])
    \/ \E k \in GuidedSenders, text \in ConvTexts \ CommandTexts :
          handle_conversation_state(k[1], k[2], text)

Spec == Init /\ [][Next]_vars

(* ----------------------- the task list's store ------------------------ *)
\* The store under the commands that decide what a task list shows: members
\* of both groups, several tasks with due dates and priorities that differ,
\* completion, and the list itself.
\* The due dates and priorities of its tasks: no due date, two tasks of one
\* day that differ in priority, and a later day.
ListedShapes ==
    {[due_date |-> None, priority |-> "normal"],
     [due_date |-> Some(DayKey(2025, 1, 10)), priority |-> "normal"],
     [due_date |-> Some(DayKey(2025, 1, 10)), priority |-> "high"],
     [due_date |-> Some(DayKey(2025, 1, 11)), priority |-> "normal"]}

NextListing ==
    \/ \E g \in Groups, n \in Names :
          handle_add_task(g, n, "", "buy lunch", None)
    \/ \E ms \in SUBSET members, c \in Contents, shape \in ListedShapes :
          nextTaskId <= ListingTasks /\ create_task(ms, c, shape.due_date, shape.priority)
    \/ \E g \in MemberGroups, id \in 1..ListingTasks : handle_complete_task(g, id)
    \/ \E g \in Groups, n \in Names \cup {""} : handle_list_tasks(g, n)

SpecListing == Init /\ [][NextListing]_vars

(* --------------------- the filtered list's store ---------------------- *)
\* The store under the commands that decide what '#list @name' shows: two
\* members of one group, a member of the other group that has the name of
\* one of them, tasks assigned to any of them, completion, and the list with
\* a filter.
FilterMembers == {<<"Alice", "G1">>, <<"Bob", "G1">>, <<"Alice", "G2">>}
FilterNames == {"Alice", "Bob"}

NextFilter ==
    \/ \E k \in FilterMembers : handle_add_task(k[2], k[1], "", "buy lunch", None)
    \/ \E ms \in SUBSET members, c \in Contents :
          nextTaskId <= FilterTasks /\ create_task(ms, c, None, "normal")
    \/ \E g \in MemberGroups, id \in 1..FilterTasks : handle_complete_task(g, id)
    \/ \E g \in Groups, n \in FilterNames : handle_list_tasks(g, n)

SpecFilter == Init /\ [][NextFilter]_vars

(* ------------------------ concurrent requests ------------------------- *)
\* Two requests served at once: each worker runs its handler on a session
\* of its own, so what another worker commits between a handler's read and
\* its own commit is not what the handler read.  A handler is split where
\* it reads the store and where it commits.

\* handle_add_task up to get_member_by_name_and_group, for a text without
\* tag and date.  With the member found it goes on to create_task at once.
handle_add_task_lookup(w, group_id, member_name) ==
    LET found == get_member_by_name_and_group(member_name, group_id)
        kwargs == [member_id |-> 0, content |-> "buy lunch", due_date |-> None,
                   priority |-> "normal"]
    IN  /\ inflight[w].pc = "idle"
        /\ UNCHANGED <<store, sessions, now>>
        /\ IF found = {}
           THEN /\ inflight' = [inflight EXCEPT ![w] =
                                    [Idle EXCEPT !.pc = "create_member",
                                                 !.group_id = group_id,
                                                 !.member_name = member_name]]
                /\ UNCHANGED last
           ELSE /\ CreateTaskOutcome(kwargs, TRUE) = "TypeError"
                /\ Respond("add", group_id, 0, Reply("add_failed_internal", 0, ""))

\* create_member and what follows it.  The insert of a (name, group_id) pair
\* that another worker has committed since the lookup violates uq_member_name_group:
\* create_member rolls back and raises, and the handler replies that the member
\* could not be created and returns.
handle_add_task_create(w) ==
    LET r == inflight[w]
        found == get_member_by_name_and_group(r.member_name, r.group_id)
        member == MemberRow(nextMemberId, r.member_name, r.group_id)
        kwargs == [member_id |-> member.id, content |-> "buy lunch", due_date |-> None,
                   priority |-> "normal"]
    IN  /\ r.pc = "create_member"
        /\ inflight' = [inflight EXCEPT ![w] = Idle]
        /\ UNCHANGED <<tasks, nextTaskId, sessions, now>>
        /\ \E member_ok \in Outcomes(found = {}) :
              IF found # {} \/ ~member_ok
              THEN /\ last' = Handled("add", r.group_id, 0,
                                      Reply("member_create_failed", 0, ""))
                   /\ UNCHANGED <<members, nextMemberId>>
              ELSE /\ members' = members \cup {member}
                   /\ nextMemberId' = nextMemberId + 1
                   /\ CreateTaskOutcome(kwargs, TRUE) = "TypeError"
                   /\ last' = Handled("add", r.group_id, 0,
                                      Reply("add_failed_internal", 0, ""))

\* handle_complete_task up to the assignments to the task it read.
handle_complete_task_read(w, group_id, task_id_num) ==
    LET found == get_task_by_id(task_id_num)
        branch == CompleteGuard(found)
    IN  /\ inflight[w].pc = "idle"
        /\ UNCHANGED <<store, sessions, now>>
        /\ IF branch = "not_found"
           THEN Respond("complete", group_id, task_id_num,
                        Reply("not_found", task_id_num, ""))
           ELSE IF branch = "already"
           THEN Respond("complete", group_id, task_id_num,
                        Reply("already_completed", task_id_num, The(found).content))
           ELSE /\ inflight' = [inflight EXCEPT ![w] =
                                    [Idle EXCEPT !.pc = "commit", !.group_id = group_id,
                                                 !.task_id = task_id_num, !.day = now]]
                /\ UNCHANGED last

\* db.commit(): the UPDATE writes status and completed_at to the row of the
\* task's id, whatever another worker has written to it since the read.
handle_complete_task_commit(w) ==
    LET r == inflight[w]
        task == The(get_task_by_id(r.task_id))
    IN  /\ r.pc = "commit"
        /\ inflight' = [inflight EXCEPT ![w] = Idle]
        /\ UNCHANGED <<members, nextMemberId, nextTaskId, sessions, now>>
        /\ \E commit_ok \in BOOLEAN :
              IF ~commit_ok
              THEN /\ last' = Handled("complete", r.group_id, r.task_id,
                                      Reply("complete_failed_db", r.task_id, ""))
                   /\ UNCHANGED tasks
              ELSE /\ tasks' = (tasks \ {task}) \cup {CompletedRow(task, r.day)}
                   /\ last' = Handled("complete", r.group_id, r.task_id,
                                      IF TaskHasAttr("member")
                                      THEN Reply("completed", r.task_id, task.content)
                                      ELSE Reply("complete_failed_internal", r.task_id, ""))

NextWorkers ==
    \/ Tick
    \/ \E ms \in SUBSET members, c \in Contents :
          nextTaskId <= MaxTasks /\ create_task(ms, c, None, "normal")
    \/ \E w \in Workers, g \in MemberGroups, n \in Names : handle_add_task_lookup(w, g, n)
    \/ \E w \in Workers : handle_add_task_create(w)
    \/ \E w \in Workers, g \in MemberGroups, id \in 1..MaxTasks :
          handle_complete_task_read(w, g, id)
    \/ \E w \in Workers : handle_complete_task_commit(w)

SpecWorkers == Init /\ [][NextWorkers]_vars

(* ------------------------- guided conversations ----------------------- *)
\* Variant for C33: the command chain is tried before the session check.
handle_text_message_commandsFirst(user, group_id, text) ==
    IF group_id = Private THEN ignore_direct_message(user, text)
    ELSE IF text = "#list" THEN handle_list_tasks(group_id, "")
    ELSE IF text = "#new" THEN new_task_guide(user, group_id)
    ELSE IF ActiveConversation(user, group_id)
    THEN handle_conversation_state(user, group_id, text)
    ELSE no_command(group_id, text)

\* handle_text_message for the messages of senders who use the guided flow:
\* the source check, the session check, and the command chain for the list
\* command, the guide command ("#new") and a text that is no command.
handle_text_message(user, group_id, text) ==
    IF group_id = Private THEN ignore_direct_message(user, text)
    ELSE IF ActiveConversation(user, group_id)
    THEN handle_conversation_state(user, group_id, text)
    ELSE IF text = "#list" THEN handle_list_tasks(group_id, "")
    ELSE IF text = "#new" THEN new_task_guide(user, group_id)
    ELSE no_command(group_id, text)

\* Two users of one group, one of them also in a second group and in a
\* one-to-one conversation with the bot.
GuideSenders ==
    {<<"U1", "G1">>, <<"U2", "G1">>, <<"U1", "G2">>, <<"U1", Private>>}

GuideTexts == ConvTexts \cup {"#new"}

NextGuide ==
    \E k \in GuideSenders, text \in GuideTexts : handle_text_message(k[1], k[2], text)

SpecGuide == Init /\ [][NextGuide]_vars

(* ------------------------ the integration API ------------------------- *)
\* N8N_API_KEY = os.environ.get('API_KEY', 'default_key'), here the default;
\* TARGET_GROUP_ID = os.environ.get('LINE_GROUP_ID'), here set to a group.
N8N_API_KEY == "default_key"
TARGET_GROUP_ID == "G1"

\* request.headers.get('X-API-KEY'): no header, an empty one, a key that is
\* not the configured one, and the configured key.
ApiKeys == {None, Some(""), Some("wrong"), Some(N8N_API_KEY)}

\* Variant for C39: any key that is not empty is let in.
Authorized_anyKey(api_key) == api_key # None /\ The(api_key) # ""

\* The negation of `not api_key or api_key != N8N_API_KEY`.
Authorized(api_key) ==
    ~(api_key = None \/ The(api_key) = "" \/ The(api_key) # N8N_API_KEY)

Unauthorized == Reply("unauthorized", 0, "")

\* GET /api/pending-tasks.  The query is built with joinedload(Task.member) and
\* Task.member.has(...): the AttributeError is caught by the endpoint's last
\* except clause, which answers 500 without task data.
api_pending_tasks(api_key) ==
    /\ UNCHANGED <<store, sessions, now>>
    /\ IF ~Authorized(api_key)
       THEN Respond("pending_tasks", "", 0, Unauthorized)
       ELSE IF TARGET_GROUP_ID = ""
       THEN Respond("pending_tasks", "", 0, Reply("target_not_configured", 0, ""))
       ELSE IF ~TaskHasAttr("member")
       THEN Respond("pending_tasks", "", 0, Reply("pending_failed_internal", 0, ""))
       ELSE Respond("pending_tasks", TARGET_GROUP_ID, 0,
                    [Reply("pending_tasks", 0, "") EXCEPT
                        !.listed = [i \in 1..Len(get_pending_tasks_by_group_id(TARGET_GROUP_ID))
                                      |-> get_pending_tasks_by_group_id(TARGET_GROUP_ID)[i].id],
                        !.count = Len(get_pending_tasks_by_group_id(TARGET_GROUP_ID))])

\* The JSON bodies of a reminder request: no 'message', an empty one, a text.
ReminderBodies == {None, Some(""), Some("remember the milk")}

\* POST /api/send-reminder.  The message record names the target the text was
\* pushed to; push_message may raise.
api_send_reminder(api_key, body) ==
    /\ UNCHANGED <<store, sessions, now>>
    /\ \E push_ok \in Outcomes(Authorized(api_key) /\ body # None /\ body # Some("")) :
          IF ~Authorized(api_key)
          THEN Respond("send_reminder", "", 0, Unauthorized)
          ELSE IF TARGET_GROUP_ID = ""
          THEN Respond("send_reminder", "", 0, Reply("target_not_configured", 0, ""))
          ELSE IF body = None
          THEN Respond("send_reminder", "", 0, Reply("missing_message", 0, ""))
          ELSE IF The(body) = ""
          THEN Respond("send_reminder", "", 0, Reply("empty_message", 0, ""))
          ELSE IF push_ok
          THEN Respond("send_reminder", TARGET_GROUP_ID, 0,
                       Reply("reminder_sent", 0, The(body)))
          ELSE Respond("send_reminder", "", 0, Reply("reminder_failed", 0, ""))

\* The store of the integration API: members and tasks of the target group
\* and of another group, completion, and the three endpoints called with any
\* of the keys.
NextApi ==
    \/ \E g \in Groups, n \in Names : handle_add_task(g, n, "", "buy lunch", None)
    \/ \E ms \in SUBSET members, c \in Contents,
          due \in {None, Some(DayKey(2025, 1, 10))} :
          nextTaskId <= MaxTasks /\ create_task(ms, c, due, "normal")
    \/ \E g \in Groups, id \in 1..MaxTasks : handle_complete_task(g, id)
    \/ \E api_key \in ApiKeys : api_pending_tasks(api_key)
    \/ \E api_key \in ApiKeys, body \in ReminderBodies : api_send_reminder(api_key, body)
    \/ \E api_key \in ApiKeys : api_generate_recurring_tasks(Authorized(api_key))

SpecApi == Init /\ [][NextApi]_vars

(* ============================ properties ============================== *)
\* The groups that own a task: the groups of its assigned members.
OwningGroups(t) == {m.group_id : m \in t.members}

\* The stored task a handled message named, if any, read in the state the
\* message was handled in.
Addressed(msg, rows) == {t \in rows : t.id = msg.id}

\* No task that is in the store before and after a step changes its status or
\* its completed_at in the step.
StatusKept ==
    \A t \in tasks : \A t2 \in tasks' :
        t2.id = t.id => t2.status = t.status /\ t2.completed_at = t.completed_at

\* C1: in every reachable state every stored task has completed_at set if and
\* only if its status is 'completed'.
C1_CompletedAtIffCompleted ==
    \A t \in tasks : (t.completed_at # None) <=> (t.status = "completed")

C1_Witness ==
    \E t \in tasks :
        /\ last.op = "complete" /\ last.id = t.id
        /\ t.status = "completed" /\ t.completed_at = Some(now)

C4_CompleteIdempotent ==
    [][(last'.op = "complete"
        /\ \E t \in Addressed(last', tasks) : t.status = "completed")
          => (last'.reply.kind = "already_completed" /\ tasks' = tasks)]_vars

\* The informational reply was sent on a day after the task's completion.
C4_Witness ==
    \E t \in tasks :
        /\ last.op = "complete" /\ last.id = t.id
        /\ last.reply.kind = "already_completed" /\ last.reply.content = t.content
        /\ t.status = "completed" /\ t.completed_at # Some(now)

\* What the store holds as a task's completed_on_time: nothing, unless the
\* class maps such an attribute.
completed_on_time(t) ==
    IF TaskHasAttr("completed_on_time") THEN Some(t["completed_on_time"]) ELSE None

\* Completion on or before the due day; no due date counts as on time.
OnTime(t) == t.due_date = None \/ The(t.completed_at) <= The(t.due_date)

\* C5: a completed task stores completed_on_time, true exactly when it has no
\* due date or was completed by the end of its due day; any other task stores
\* none.
C5_CompletedOnTimeStored ==
    \A t \in tasks :
        IF t.status = "completed"
        THEN completed_on_time(t) = Some(OnTime(t))
        ELSE completed_on_time(t) = None

\* C6: Complete sent from a group that does not own the task is answered with
\* a permission error and leaves status and completed_at unchanged (a failed
\* commit aside).
C6_CompleteOtherGroupRejected ==
    [][(last'.op = "complete" /\ last'.reply.kind # "complete_failed_db"
        /\ \E t \in Addressed(last', tasks) : last'.group \notin OwningGroups(t))
          => (last'.reply.kind = "wrong_group" /\ StatusKept)]_vars

\* C7: Delete or Edit sent from a group that does not own the task is not
\* carried out: the reply is no success and the task is stored unchanged.
C7_DeleteEditOtherGroupRejected ==
    [][(last'.op \in {"delete", "edit"}
        /\ \E t \in Addressed(last', tasks) : last'.group \notin OwningGroups(t))
          => (last'.reply.kind \notin {"deleted", "edited"} /\ tasks' = tasks)]_vars

C7_Witness ==
    \E t \in tasks :
        /\ last.op = "edit" /\ last.id = t.id
        /\ last.group \notin OwningGroups(t)

C9_UnknownIdNotFound ==
    [][(last'.op \in {"delete", "complete", "edit", "detail"}
        /\ Addressed(last', tasks) = {})
          => (last'.reply = Reply("not_found", last'.id, "")
              /\ UNCHANGED <<tasks, members>>)]_vars

\* C10: Edit changes no task's status or completed_at.
C10_EditKeepsStatus ==
    [][last'.op = "edit" => StatusKept]_vars

\* Edit addressed a completed task.
C10_Witness ==
    \E t \in tasks :
        /\ last.op = "edit" /\ last.id = t.id
        /\ t.status = "completed" /\ t.completed_at # None

\* An Edit the handler is asked to carry out: the task is stored, a member of
\* the sending group is assigned to it, and the date token, if any, is a
\* calendar date.  (The model's contents are all non-empty.)
EditAccepted(group_id, task_id_num, new_due_date_str) ==
    /\ \E t \in get_task_by_id(task_id_num) : group_id \in OwningGroups(t)
    /\ new_due_date_str # None => parse_date(new_due_date_str) # None

\* C11: an Edit that is accepted and whose commit does not fail leaves the
\* task with the due date of its date token, and with the due date it had when
\* no date token is given.
C11_EditDueDate ==
    [][\A g \in Groups, id \in 1..MaxTasks, tag \in PriorityTags, c \in Contents,
          d \in DateStrs :
          (/\ handle_edit_task(g, id, tag, c, d)
           /\ EditAccepted(g, id, d)
           /\ last'.reply.kind # "edit_failed_db")
            => \E t \in get_task_by_id(id) : \E t2 \in tasks' :
                  /\ t2.id = id
                  /\ t2.due_date = IF d = None THEN t.due_date ELSE parse_date(d)]_vars

\* The step is handle_add_task answering the Add text sent in the group.
AddHandled(group_id, text) ==
    /\ add_match(text) # None
    /\ LET match == The(add_match(text)) IN
       handle_add_task(group_id, match.member_name, match.priority_tag,
                       match.task_content, match.due_date_str)

\* The trailing token is a calendar date written with '/'.
WellFormedTrailer(trailer) ==
    /\ trailer # None
    /\ The(trailer).sep = "/"
    /\ The(trailer).m \in 1..12
    /\ The(trailer).d \in 1..DaysInMonth(The(trailer).y, The(trailer).m)

\* The trailing token is written as a date and is none: no calendar date, or
\* a separator other than '/'.
MalformedTrailer(trailer) == trailer # None /\ ~WellFormedTrailer(trailer)

\* C12: a valid Add (a mention, a body, a well-formed date token or none)
\* whose member creation and commit do not fail creates a task whose due date
\* is the day of the token, and absent when no token is given.
C12_AddDueDate ==
    [][\A g \in MemberGroups, text \in AddTexts :
          (/\ AddHandled(g, text)
           /\ ~MalformedTrailer(text.trailer)
           /\ last'.reply.kind \notin {"member_create_failed", "add_failed_db"})
            => \E t \in tasks' \ tasks :
                  t.due_date = IF text.trailer = None THEN None
                               ELSE LET tok == The(text.trailer) IN
                                    Some(DayKey(tok.y, tok.m, tok.d))]_vars

\* The lines of a batch whose date token is no calendar date.
OffendingLines(task_lines) ==
    {i \in 1..Len(task_lines) :
        task_lines[i].date_str # None /\ parse_date(task_lines[i].date_str) = None}

\* C13: an Add whose trailing date is malformed adds no task and no member;
\* a Batch-add stores no task for a line whose date token is no calendar date.
C13_MalformedDateRejected ==
    [][/\ \A g \in MemberGroups, text \in AddTexts :
             (AddHandled(g, text) /\ MalformedTrailer(text.trailer))
                 => UNCHANGED <<members, tasks>>
       /\ \A g \in MemberGroups, n \in Names, b \in Batches :
             handle_batch_add_tasks(g, n, b)
                 => Cardinality(tasks' \ tasks)
                        <= Len(b) - Cardinality(OffendingLines(b))]_vars

\* The ids a task list names.
Listed(reply) == {reply.listed[i] : i \in 1..Len(reply.listed)}

\* C14: a valid Add in a group stores a pending task of that group, and a
\* '#list' without a filter names a task of the group exactly while the task
\* is pending: from its creation on, and no more once it is completed.
C14_AddedTaskListedUntilCompleted ==
    [][/\ \A g \in MemberGroups, text \in AddTexts :
             (/\ AddHandled(g, text)
              /\ ~MalformedTrailer(text.trailer)
              /\ last'.reply.kind \notin {"member_create_failed", "add_failed_db"})
               => \E t \in tasks' \ tasks :
                     t.status = "pending" /\ g \in OwningGroups(t)
       /\ \A g \in Groups :
             handle_list_tasks(g, "")
               => \A t \in tasks :
                     g \in OwningGroups(t)
                       => (t.id \in Listed(last'.reply) <=> t.status = "pending")]_vars

\* C15: an Add in a group that supplies no mention is answered with a reply
\* to the sender and creates no task.
C15_AddWithoutMentionAnswered ==
    [][\A g \in MemberGroups, text \in AddTexts :
          (text.mentions = <<>> /\ add_match(text) = None /\ no_command(g, text))
            => (last'.reply.kind # "none" /\ tasks' = tasks)]_vars

\* The names of a mention block.
MentionedNames(text) == {text.mentions[i] : i \in 1..Len(text.mentions)}

\* C16: a valid Add whose mention block names several members leaves a member
\* of the group for every mentioned name and creates one task, assigned to
\* all of them, whose content is the text after the mention block.
C16_AddAssignsEveryMention ==
    [][\A g \in MemberGroups, text \in AddTexts :
          (/\ Len(text.mentions) > 1
           /\ AddHandled(g, text)
           /\ ~MalformedTrailer(text.trailer)
           /\ last'.reply.kind \notin {"member_create_failed", "add_failed_db"})
            => /\ \A n \in MentionedNames(text) :
                     get_member_by_name_and_group(n, g)' # {}
               /\ \E t \in tasks' \ tasks :
                     /\ {m.name : m \in t.members} = MentionedNames(text)
                     /\ t.content = text.body]_vars

\* C17: an Add sent in a one-to-one conversation creates a pending task that
\* has no assigned member.
C17_PrivateAddCreatesTask ==
    [][\A u \in Users, text \in PrivateTexts :
          ignore_direct_message(u, text)
            => \E t \in tasks' \ tasks : t.status = "pending" /\ t.members = {}]_vars

\* C18: no two members share a (name, group id) pair; a step creates a member
\* only for a pair that has no row, and never changes or removes a row, so
\* every command naming the pair resolves to the one row and its id.
C18_MemberUniquePerGroup ==
    [][/\ \A m1 \in members' : \A m2 \in members' :
             (m1.name = m2.name /\ m1.group_id = m2.group_id) => m1 = m2
       /\ members \subseteq members'
       /\ \A m \in members' \ members :
             get_member_by_name_and_group(m.name, m.group_id) = {}]_vars

\* A Batch-add named a member that a stored task was assigned to before.
C18_Witness ==
    /\ last.op = "batch" /\ last.reply.kind = "batch_result"
    /\ \E t \in tasks : \E m \in t.members : m.name = "Alice" /\ m.group_id = last.group
    /\ Cardinality(members) = 1

\* C19: every stored task has an assigned member, and create_task called
\* with no members raises and stores nothing.
C19_TaskHasMember ==
    [][/\ \A t \in tasks' : t.members # {}
       /\ \A c \in Contents, due \in {None, Some(DayKey(2025, 1, 10))} :
             create_task({}, c, due, "normal")
               => (last'.reply.kind = "ValueError" /\ tasks' = tasks)]_vars

\* create_task was refused for an empty member list while members exist.
C19_Witness ==
    /\ last.op = "create_task" /\ last.reply.kind = "ValueError"
    /\ members # {}

\* The task a list entry names.
TaskOf(id) == CHOOSE t \in tasks : t.id = id

\* The pending tasks with a member in the group.
PendingOf(group_id) ==
    {t \in tasks : t.status = "pending" /\ group_id \in OwningGroups(t)}

\* The list names exactly the ids of the rows, each once.
NamesExactly(listed, rows) ==
    /\ {listed[i] : i \in 1..Len(listed)} = {t.id : t \in rows}
    /\ Len(listed) = Cardinality(rows)

\* a has the earlier due date; a task without a due date comes after one that
\* has one.
DueBefore(a, b) ==
    a.due_date # None /\ (b.due_date = None \/ The(a.due_date) < The(b.due_date))

PriorityShownFirst(p, q) ==
    <<p, q>> \in {<<"normal", "low">>, <<"normal", "high">>, <<"low", "high">>}

AssignedPending(name, group_id) ==
    {t \in tasks : /\ t.status = "pending"
                   /\ \E m \in t.members : m.name = name /\ m.group_id = group_id}

\* C21: '#list @name' in a group answers member-not-found and creates no
\* member when the group has no member of that name; otherwise it names
\* exactly the pending tasks assigned to that member, and so no task that is
\* assigned only to other members or to a member of that name in another
\* group.
C21_ListFiltersByMember ==
    [][\A g \in Groups, n \in FilterNames :
          handle_list_tasks(g, n)
            => IF get_member_by_name_and_group(n, g) = {}
               THEN last'.reply.kind = "member_not_found" /\ members' = members
               ELSE NamesExactly(last'.reply.listed, AssignedPending(n, g))]_vars

\* A filtered list in G1 names task 1 and not task 2, both pending: task 1 is
\* Alice's in G1, task 2 is assigned to Bob of G1 and to Alice of G2 only.
C21_Witness ==
    /\ last.op = "list" /\ last.group = "G1" /\ last.reply.listed = <<1>>
    /\ \A id \in {1, 2} : \E t \in tasks : t.id = id /\ t.status = "pending"
    /\ \E m \in TaskOf(1).members : m.name = "Alice" /\ m.group_id = "G1"
    /\ {<<m.name, m.group_id>> : m \in TaskOf(2).members}
          = {<<"Bob", "G1">>, <<"Alice", "G2">>}

(* ------------------------------- C22 ---------------------------------- *)
\* C22: in a batch the handler accepts, a line that does not parse (a date
\* the calendar lacks, or no content left beside the date) is counted as
\* failed and the batch goes on: every line that parses is stored as a
\* pending task of its own, assigned to the member the batch names.
C22_BatchStoresParsedLines ==
    [][\A g \in MemberGroups, n \in Names, b \in Batches :
          (handle_batch_add_tasks(g, n, b) /\ last'.reply.kind = "batch_result")
            => LET parsed == {i \in 1..Len(b) : ~BatchLineError(b[i])} IN
               /\ last'.reply.failed = Len(b) - Cardinality(parsed)
               /\ Cardinality(tasks' \ tasks) = Cardinality(parsed)
               /\ \A t \in tasks' \ tasks :
                     /\ t.status = "pending"
                     /\ \E m \in t.members : m.name = n /\ m.group_id = g]_vars

(* ------------------------------- C23 ---------------------------------- *)
\* C23: a pick that is given options draws one of the tokens the sender
\* wrote between blanks, and reports as the number of options the number of
\* those tokens, a token written twice counted twice.
C23_PickAmongTokensAsGiven ==
    [][\A g \in MemberGroups, text \in PickTexts :
          (/\ last'.op = "pick" /\ pick_match(text) # None
           /\ handle_random_pick(g, The(pick_match(text))))
            => LET tokens == split(text) IN
               /\ \E i \in 1..Len(tokens) : last'.reply.content = tokens[i]
               /\ last'.reply.options = tokens
               /\ last'.reply.count = Len(tokens)]_vars

\* The pick of "A A B" reports three options and draws A.
C23_Witness ==
    /\ last.op = "pick" /\ last.reply.kind = "picked"
    /\ last.reply.options = <<"A", "A", "B">>
    /\ last.reply.count = 3 /\ last.reply.content = "A"

(* ------------------------------- C24 ---------------------------------- *)
\* C24: a pick command with nothing, or blanks only, behind its keyword is
\* answered with the usage text of the pick command.
C24_PickWithoutOptionsAnswered ==
    [][\A g \in MemberGroups, text \in PickTexts :
          (/\ split(text) = <<>>
           /\ \/ pick_match(text) = None /\ no_command(g, text)
              \/ pick_match(text) # None /\ handle_random_pick(g, The(pick_match(text))))
            => (last'.op = "pick" /\ last'.reply.kind = "pick_usage")]_vars

(* ------------------------------- C25 ---------------------------------- *)
\* C25: a message whose text is a command is handled as that command and
\* answered, wherever it is sent and whatever session its sender has: an Add
\* sent in a one-to-one conversation is answered as an Add, and a list
\* command sent while the guided flow waits for input is answered as a list.
C25_CommandAlwaysHandled ==
    [][/\ \A u \in Users, text \in PrivateTexts :
             (add_match(text) # None /\ ignore_direct_message(u, text))
               => (last'.op = "add" /\ last'.reply.kind # "none")
       /\ \A k \in GuidedSenders :
             handle_conversation_state(k[1], k[2], "#list")
               => (last'.op = "list" /\ last'.reply.kind # "none")]_vars

(* ------------------------------- C26 ---------------------------------- *)
\* C26: of two Adds that name the same member while the group has no member
\* of that name, the one whose insert comes second takes the row the first
\* one created and stores its task for that member, and is not answered with
\* an error.
C26_RacingAddUsesWinnersMember ==
    [][\A w \in Workers :
          (/\ handle_add_task_create(w)
           /\ get_member_by_name_and_group(inflight[w].member_name,
                                           inflight[w].group_id) # {})
            => /\ last'.reply.kind = "added"
               /\ \E t \in tasks' \ tasks :
                     t.members = get_member_by_name_and_group(inflight[w].member_name,
                                                              inflight[w].group_id)]_vars

(* ------------------------------- C27 ---------------------------------- *)
\* C27: a task is completed once, also by Completes that run at the same
\* time: the completed_at a task has is never written again, and a Complete
\* that comes to its commit after another one has completed the task writes
\* nothing and reports no completion of its own.
C27_CompletedOnce ==
    [][/\ \A t \in tasks : t.completed_at # None => t \in tasks'
       /\ \A w \in Workers :
             (/\ handle_complete_task_commit(w)
              /\ TaskOf(inflight[w].task_id).status = "completed")
               => /\ tasks' = tasks
                  /\ last'.reply.kind \in {"already_completed", "complete_failed_db"}]_vars

(* ------------------------------- C28 ---------------------------------- *)
\* A date token the calendar lacks.
RejectedDates == {d \in DateStrs : d # None /\ parse_date(d) = None}

\* C28: a date that does not parse is reported before the store is read or
\* written: an Add with such a date is answered with the date error and
\* leaves the store alone; an Edit with such a date is answered with the date
\* error for any task id, known or not; a batch none of whose lines parses
\* leaves the store alone.
C28_ParseErrorsBeforeStore ==
    [][/\ \A g \in MemberGroups, n \in Names, tag \in PriorityTags, c \in Contents,
             d \in RejectedDates :
             handle_add_task(g, n, tag, c, d)
               => (last'.reply.kind = "date_format_error" /\ UNCHANGED store)
       /\ \A g \in Groups, id \in 1..(MaxTasks + 1), tag \in PriorityTags,
             c \in Contents, d \in RejectedDates :
             handle_edit_task(g, id, tag, c, d)
               => (last'.reply.kind = "date_format_error" /\ UNCHANGED store)
       /\ \A g \in MemberGroups, n \in Names, b \in Batches :
             (/\ handle_batch_add_tasks(g, n, b)
              /\ b # <<>> /\ \A i \in 1..Len(b) : BatchLineError(b[i]))
               => UNCHANGED store]_vars

(* ------------------------------- C29 ---------------------------------- *)
\* The replies of a creating command whose task was not stored.
CreationFailed(msg) ==
    \/ /\ msg.op \in {"add", "conversation", "recurring"}
       /\ msg.reply.kind \in {"add_failed_db", "add_failed_internal",
                               "recurring_failed_db", "recurring_failed_internal"}
    \/ /\ msg.op = "batch" /\ msg.reply.kind = "batch_result"
       /\ msg.reply.stored = 0

\* C29: a creating command (Add, the guided flow, Batch-add, recurring
\* creation) that ends without its task stored leaves the store as it found
\* it: neither a task nor the member the command created for it.
C29_FailedCreationLeavesNoMember ==
    [][CreationFailed(last') => (members' = members /\ tasks' = tasks)]_vars

(* ------------------------------- C30 ---------------------------------- *)
\* C30: a reply that cannot be delivered takes nothing back: when a Complete
\* has committed and sending its reply fails, the task is completed in the
\* store, with its completion time.
C30_LostReplyKeepsCommit ==
    (/\ last.op = "complete" /\ last.delivery # "sent"
     /\ last.reply.kind \in {"completed", "complete_failed_internal"})
      => \E t \in tasks :
            t.id = last.id /\ t.status = "completed" /\ t.completed_at # None

\* The reply of a committed Complete of task 1 was not delivered.
C30_Witness ==
    /\ last.op = "complete" /\ last.id = 1 /\ last.delivery = "lost"
    /\ last.reply.kind = "complete_failed_internal"
    /\ TaskOf(1).status = "completed"

(* ------------------------------- C31 ---------------------------------- *)
\* The steps of the guided flow in their order; "" is no session.
StepOrder ==
    {<<"", "get_content">>, <<"get_content", "get_member">>,
     <<"get_member", "get_priority">>, <<"get_priority", "get_due_date">>,
     <<"get_due_date", "">>}

\* C31: a session moves through get_content, get_member, get_priority and
\* get_due_date in this order and is then removed; no message skips a step
\* or moves it back.  At get_priority the session holds content and member
\* name, at get_due_date also the priority.
C31_GuideStepsInOrder ==
    [][\A k \in SessionKeys :
          /\ \/ sessions'[k].step = sessions[k].step
             \/ <<sessions[k].step, sessions'[k].step>> \in StepOrder
          /\ sessions'[k].step \in {"get_priority", "get_due_date"}
                => (sessions'[k].content # "" /\ sessions'[k].member_name # "")
          /\ sessions'[k].step = "get_due_date" => sessions'[k].priority # ""]_vars

\* A flow has reached its last step while another one waits for the member.
C31_Witness ==
    /\ sessions[session_key("U1", "G1")].step = "get_due_date"
    /\ sessions[session_key("U1", "G1")].priority = "high"
    /\ sessions[session_key("U2", "G1")].step = "get_member"
    /\ last.op = "conversation" /\ last.reply.kind = "ask_due_date"

(* ------------------------------- C32 ---------------------------------- *)
\* C32: a message of user u in group g changes only the session of (u, g):
\* the session of every other user, and of u in every other group, is the
\* same after the message as before.
C32_SessionsIsolated ==
    [][\A k \in GuideSenders, text \in GuideTexts :
          \/ \A u \in Users, g \in Groups :
                <<u, g>> # k
                  => sessions'[session_key(u, g)] = sessions[session_key(u, g)]
          \/ ~handle_text_message(k[1], k[2], text)]_vars

\* U1 has answered in G1 while U2 in G1 and U1 in G2 are at other steps.
C32_Witness ==
    /\ last.op = "conversation" /\ last.group = "G1"
    /\ sessions[session_key("U1", "G1")].step = "get_priority"
    /\ sessions[session_key("U2", "G1")].step = "get_content"
    /\ sessions[session_key("U1", "G2")].step = "get_due_date"

(* ------------------------------- C33 ---------------------------------- *)
\* C33: while a user has a session in a group, every message of the user in
\* that group, command text included, is answered by the guided flow and by
\* no command handler; the session is removed only by an answer that the
\* get_due_date step accepts (a skip word or a date).
C33_SessionConsumesMessages ==
    [][\A k \in GuideSenders, text \in GuideTexts :
          (k[2] # Private /\ ActiveConversation(k[1], k[2]))
            => \/ /\ last'.op = "conversation"
                  /\ ~ActiveConversation(k[1], k[2])'
                       => /\ sessions[session_key(k[1], k[2])].step = "get_due_date"
                          /\ SkipsDueDate(text) \/ strptime(text) # None
               \/ ~handle_text_message(k[1], k[2], text)]_vars

\* The text of the list command was taken as the content of the task.
C33_Witness ==
    /\ last.op = "conversation" /\ last.reply.kind = "ask_member"
    /\ sessions[session_key("U1", "G1")].content = "#list"
    /\ sessions[session_key("U1", "G1")].step = "get_member"

(* ------------------------------- C34 ---------------------------------- *)
\* C34: a message answered by the guided flow leaves members and tasks as
\* they are unless it is an accepted answer at the get_due_date step, and
\* that step adds at most one task (and removes nothing).
C34_GuideWritesOnlyAtEnd ==
    [][\A k \in GuideSenders, text \in GuideTexts :
          (k[2] # Private /\ ActiveConversation(k[1], k[2]))
            => \/ store' = store
               \/ /\ sessions[session_key(k[1], k[2])].step = "get_due_date"
                  /\ SkipsDueDate(text) \/ strptime(text) # None
                  /\ tasks \subseteq tasks' /\ members \subseteq members'
                  /\ Cardinality(tasks' \ tasks) <= 1
               \/ ~handle_text_message(k[1], k[2], text)]_vars

\* The flow of U1 in G1 has run its last step, which created the member; the
\* flow of U1 in G2 has passed get_member and get_priority with the name of
\* a member that G2 does not have, and G2 still has no member.
C34_Witness ==
    /\ last.op = "conversation" /\ last.group = "G2"
    /\ last.reply.kind = "ask_due_date"
    /\ sessions[session_key("U1", "G2")].step = "get_due_date"
    /\ sessions[session_key("U1", "G2")].member_name = "Alice"
    /\ \E m \in members : m.group_id = "G1" /\ m.name = "Alice"
    /\ ~\E m \in members : m.group_id = "G2"

(* ------------------------------- C35 ---------------------------------- *)
\* C35: an accepted answer at the get_due_date step (a skip word or a date)
\* leaves the sender without a session, whatever became of the task.
C35_AcceptedDateEndsSession ==
    [][\A k \in GuideSenders, text \in GuideTexts :
          (/\ k[2] # Private
           /\ sessions[session_key(k[1], k[2])].step = "get_due_date"
           /\ SkipsDueDate(text) \/ strptime(text) # None)
            => \/ ~ActiveConversation(k[1], k[2])'
               \/ ~handle_text_message(k[1], k[2], text)]_vars

(* ------------------------------- C36 ---------------------------------- *)
\* C36: a batch that is answered with its result stores all of the lines
\* that parsed or none of them, reports as stored the tasks it stored, and
\* counts every line once, as stored or as failed.
C36_BatchAtomicAndCounted ==
    [][\A g \in MemberGroups, n \in Names, b \in Batches :
          (/\ last'.op = "batch" /\ last'.reply.kind = "batch_result"
           /\ handle_batch_add_tasks(g, n, b))
            => LET parsed == {i \in 1..Len(b) : ~BatchLineError(b[i])} IN
               /\ last'.reply.stored + last'.reply.failed = Len(b)
               /\ Cardinality(tasks' \ tasks) = last'.reply.stored
               /\ tasks \subseteq tasks'
               /\ last'.reply.stored \in {0, Cardinality(parsed)}]_vars

\* A batch of three lines, two of which parsed, was answered with three
\* failures and stored nothing.
C36_Witness ==
    /\ last.op = "batch" /\ last.reply.kind = "batch_result"
    /\ last.reply.failed = 3 /\ last.reply.stored = 0

\* C36 as stated: whatever comes of a batch with lines, the answer counts
\* every line once, as stored or as failed, and the tasks stored are all of
\* the lines that parsed or none.
C36_EveryOutcomeCountsLines ==
    [][\A g \in MemberGroups, n \in Names, b \in Batches :
          (last'.op = "batch" /\ b # <<>> /\ handle_batch_add_tasks(g, n, b))
            => /\ last'.reply.kind = "batch_result"
               /\ last'.reply.stored + last'.reply.failed = Len(b)
               /\ Cardinality(tasks' \ tasks) = last'.reply.stored]_vars

(* ------------------------------- C39 ---------------------------------- *)
\* The message records of a request the API answered to the caller's gain: task
\* data in the answer, or a message pushed to a target.
ApiGaveOrPushed(msg) ==
    \/ msg.reply.listed # <<>> \/ msg.reply.count # 0
    \/ msg.group # ""
    \/ msg.reply.kind \in {"pending_tasks", "reminder_sent", "generated"}

\* C39: a request to one of the three endpoints whose X-API-KEY header is
\* missing or is not the configured key is answered with 401, carries no
\* task data, pushes nothing, and leaves members, tasks and sessions as they
\* were.
C39_NoKeyNoEffect ==
    [][\A api_key \in ApiKeys \ {Some(N8N_API_KEY)} :
          \/ /\ last'.reply = Unauthorized
             /\ ~ApiGaveOrPushed(last')
             /\ UNCHANGED <<store, sessions>>
          \/ ~(\/ api_pending_tasks(api_key)
               \/ \E body \in ReminderBodies : api_send_reminder(api_key, body)
               \/ api_generate_recurring_tasks(Authorized(api_key)))]_vars

\* A reminder request was refused while the target group has a pending task.
C39_Witness ==
    /\ last.op = "send_reminder" /\ last.reply.kind = "unauthorized"
    /\ \E t \in tasks :
          t.status = "pending" /\ \E m \in t.members : m.group_id = TARGET_GROUP_ID

====
